---- MODULE Spec2Model ----
(***************************************************************************)
(* Model of the gift-recommendation pipeline of app.py: three front-end   *)
(* collaborator calls, then two fan-out stages run on a                   *)
(* ThreadPoolExecutor (link resolution with get_product_links, metadata   *)
(* extraction with extract_product_sync), then the display of results.    *)
(***************************************************************************)
EXTENDS Integers, Sequences, FiniteSets, TLC

\* ------------------------------------------------------------------------
\* Bounds and program constants
\* ------------------------------------------------------------------------

\* Longest idea list the formatter returns in Spec and SpecDet.
MaxIdeas == 3

\* ThreadPoolExecutor(max_workers=10), both stages.
max_workers == 10

\* Progress is written every 2 completions (count % 2 == 0).
progress_every == 2

\* Longest idea list in the LLM answer that format_perplexity_output cleans up
\* in SpecPrice.
MaxPricedIdeas == 2

\* Longest list of objects in the crawler's extracted_content in SpecExtract.
MaxExtracted == 2

\* Idea-list length of SpecCap: one more task than the pool has workers.
CapIdeas == max_workers + 1

\* ------------------------------------------------------------------------
\* Values
\* ------------------------------------------------------------------------

\* A dict key that was never assigned.
Unset == "<unset>"

\* Python's None.
None == "None"

Names == {"A"}

\* A product idea of formatted_output["product_ideas"]; the "name" key may be
\* missing.
Ideas == [has_name : {TRUE}, name : Names] \cup {[has_name |-> FALSE, name |-> Unset]}

\* product.get("name", "")
IdeaName(idea) == IF idea.has_name THEN idea.name ELSE ""

\* The link the search collaborator returns as first organic result of a query.
UrlOf(query) == IF query = "A" THEN "http://A" ELSE "http://"

Urls == {UrlOf(n) : n \in Names \cup {""}}

\* A dict result: its keys; a str result: whether the text contains "error".
DictVal(keys) == [type |-> "dict", keys |-> keys, substr_error |-> FALSE]
StrVal(mentions) == [type |-> "str", keys |-> {}, substr_error |-> mentions]
UnsetVal == [type |-> "unset", keys |-> {}, substr_error |-> FALSE]

\* Python's `key in x`: key membership on a dict, substring test on a str.
In(key, x) ==
    IF x.type = "dict" THEN key \in x.keys
    ELSE IF x.type = "str" THEN (key = "error" /\ x.substr_error)
    ELSE FALSE

\* x[key] on a dict that has the key; on a str it raises TypeError.
SubscriptRaises(key, x) == x.type = "str" \/ ~In(key, x)

\* The metadata slot of a product, and the dicts the stage-2 tasks return.
MetaUnset == [kind |-> "unset", success |-> FALSE, error |-> Unset, url |-> Unset, data |-> Unset]
MetaNone == [kind |-> "None", success |-> FALSE, error |-> Unset, url |-> Unset, data |-> Unset]
Failure(err, url) == [kind |-> "dict", success |-> FALSE, error |-> err, url |-> url, data |-> Unset]
Success(data, url) == [kind |-> "dict", success |-> TRUE, error |-> Unset, url |-> url, data |-> data]
ProductData(url) == [kind |-> "product", success |-> FALSE, error |-> Unset, url |-> Unset, data |-> url]


\* ------------------------------------------------------------------------
\* Collaborators as functions of their external response
\* ------------------------------------------------------------------------

\* What parse_gift_request returns: the parsed JSON object, or {"error": ...}.
ParseResults == {DictVal({"recipient", "budget"}), DictVal({"error"})}

\* What generate_product_ideas returns: the raw content string (which may or may
\* not contain the word "error"), or {"error": ...}.
GenerateResults == {StrVal(FALSE), StrVal(TRUE), DictVal({"error"})}

\* Idea lists of length 0..n.
IdeaLists(n) == UNION {[1..k -> Ideas] : k \in 0..n}

\* What format_perplexity_output returns: the parsed object with its
\* product_ideas list, the parsed object without that key, or {"error": ...}.
FormatResults(n) ==
    {[type |-> "dict", keys |-> {"product_ideas"}, substr_error |-> FALSE, product_ideas |-> l] :
        l \in IdeaLists(n)}
    \cup {[type |-> "dict", keys |-> {"gift_summary"}, substr_error |-> FALSE, product_ideas |-> <<>>],
          [type |-> "dict", keys |-> {"error"}, substr_error |-> FALSE, product_ideas |-> <<>>]}

\* formatted_output.get("product_ideas", [])
GetProductIdeas(out) == IF In("product_ideas", out) THEN out.product_ideas ELSE <<>>

\* BuildCandidates with the list built back to front.
BuildCandidatesReversed(out) ==
    [i \in 1..Len(GetProductIdeas(out)) |->
        [name |-> IdeaName(GetProductIdeas(out)[Len(GetProductIdeas(out)) + 1 - i]),
         link |-> Unset, metadata |-> MetaUnset]]

\* The candidate list: one {"name": ...} dict per idea, in input order.
BuildCandidates(out) ==
    [i \in 1..Len(GetProductIdeas(out)) |->
        [name |-> IdeaName(GetProductIdeas(out)[i]), link |-> Unset, metadata |-> MetaUnset]]

\* Responses of the search collaborator: a first organic result, an empty
\* organic_results list, a body without the organic_results key, a failed request.
SearchResponses == {"result", "empty", "missing", "neterror"}

\* The outcome of a call: a returned value or a raised exception.
Returned(v) == [raised |-> FALSE, value |-> v]
Raised(e) == [raised |-> TRUE, value |-> e]

get_product_links(query, resp) ==
    CASE resp = "neterror" -> Raised("RequestException")
      [] resp = "missing" -> Raised("KeyError")
      [] resp = "empty" -> Returned(None)
      [] OTHER -> Returned(UrlOf(query))

\* Behaviours of the extraction collaborator and of asyncio.run around it.
ExtractResponses == {"ok", "empty_list", "crawl_failed", "exception", "run_raises"}

extract_product_data(url, resp) ==
    CASE resp = "ok" -> Success(ProductData(url), url)
      [] resp = "empty_list" -> Failure("No products found in extracted data", Unset)
      [] resp = "crawl_failed" -> Failure("Crawling failed: error_message", url)
      [] OTHER -> Failure("Extraction error: collaborator exception", url)

extract_product_sync(url, resp) ==
    IF resp = "run_raises" THEN Raised("RuntimeError")
    ELSE Returned(extract_product_data(url, resp))

\* HasLink without the truthiness test: "link" in p.
HasLinkKeyOnly(p) == p.link # Unset

\* "link" in p and p["link"]
HasLink(p) == p.link # Unset /\ p.link # None /\ p.link # ""

\* The else branch of the stage-2 lambda.
NoLinkResult == Failure("No link available", Unset)

\* GetLink that never finds the key.
GetLinkDefault(p) == ""

\* product.get("link", "")
GetLink(p) == IF p.link = Unset THEN "" ELSE p.link

\* StoredMetadata that drops the data of a successful result as well.
StoredMetadataDropsData(outcome, p) ==
    IF outcome.raised
    THEN Failure("Extraction failed: RuntimeError", GetLink(p))
    ELSE MetaNone

\* The metadata the orchestrator stores for a finished stage-2 future.
StoredMetadata(outcome, p) ==
    IF outcome.raised
    THEN Failure("Extraction failed: RuntimeError", GetLink(p))
    ELSE IF outcome.value.success THEN outcome.value.data ELSE MetaNone

\* count % 2 == 0 or count == length
ShouldReport(n, length) == n % progress_every = 0 \/ n = length

\* ------------------------------------------------------------------------
\* format_perplexity_output: the clean-up of the price ranges
\* ------------------------------------------------------------------------

\* Strings are sequences of characters.
Digits == {"0", "1", "2", "3", "4", "5", "6", "7", "8", "9"}

DigitValue(c) ==
    CASE c = "0" -> 0 [] c = "1" -> 1 [] c = "2" -> 2 [] c = "3" -> 3 [] c = "4" -> 4
      [] c = "5" -> 5 [] c = "6" -> 6 [] c = "7" -> 7 [] c = "8" -> 8 [] OTHER -> 9

\* s.replace(c, '')
IsNot(c, d) == c # d
Without(s, c) == SelectSeq(s, LAMBDA d : IsNot(c, d))

\* s.strip()
RECURSIVE Strip(_)
Strip(s) ==
    IF s = <<>> THEN s
    ELSE IF Head(s) = " " THEN Strip(Tail(s))
    ELSE IF s[Len(s)] = " " THEN Strip(SubSeq(s, 1, Len(s) - 1))
    ELSE s

\* The text float() is given: str(v).replace('₹', '').replace(',', '').strip()
CleanPrice(s) == Strip(Without(Without(s, "₹"), ","))

\* The position of the decimal point of s, or Len(s) + 1 if it has none.
PointAt(s) ==
    IF \E k \in 1..Len(s) : s[k] = "."
    THEN CHOOSE k \in 1..Len(s) : s[k] = "." /\ \A j \in 1..(k - 1) : s[j] # "."
    ELSE Len(s) + 1

\* float() accepts s as a decimal number: an optional sign, digits with at
\* most one decimal point, and at least one digit.
IsDecimal(s) ==
    LET body == IF s # <<>> /\ Head(s) = "-" THEN Tail(s) ELSE s
    IN /\ \E k \in 1..Len(body) : body[k] \in Digits
       /\ \A k \in 1..Len(body) : body[k] \in Digits \cup {"."}
       /\ Cardinality({k \in 1..Len(body) : body[k] = "."}) <= 1

\* The value of a sequence of digits.
RECURSIVE DigitsValue(_)
DigitsValue(s) ==
    IF s = <<>> THEN 0 ELSE 10 * DigitsValue(SubSeq(s, 1, Len(s) - 1)) + DigitValue(s[Len(s)])

\* int(float(s)) of a decimal number: its integer part, truncated towards zero.
TruncatedValue(s) ==
    LET neg == s # <<>> /\ Head(s) = "-"
        body == IF neg THEN Tail(s) ELSE s
        whole == DigitsValue(SubSeq(body, 1, PointAt(body) - 1))
    IN IF neg THEN 0 - whole ELSE whole

\* The outcome of evaluating an expression: a value, or the exception raised.
Value(v) == [exc |-> "none", value |-> v]
Throws(e) == [exc |-> e, value |-> 0]

\* int(float(text)): ValueError on text that is no number (and on nan),
\* OverflowError on an infinity.
IntOfFloat(text) ==
    IF text \in {<<"i", "n", "f">>, <<"-", "i", "n", "f">>} THEN Throws("OverflowError")
    ELSE IF IsDecimal(text) THEN Value(TruncatedValue(text))
    ELSE Throws("ValueError")

\* A price bound as the LLM's JSON gives it: no key, null, a number (its
\* integer part and whether it has a fraction), or a string.
MissingBound == [kind |-> "missing", whole |-> 0, frac |-> FALSE, chars |-> <<>>]
NullBound == [kind |-> "null", whole |-> 0, frac |-> FALSE, chars |-> <<>>]
NumberBound(whole, frac) == [kind |-> "number", whole |-> whole, frac |-> frac, chars |-> <<>>]
StringBound(chars) == [kind |-> "string", whole |-> 0, frac |-> FALSE, chars |-> chars]

\* str(price_range.get(key, 0)) of a bound that is no string is "0" for a
\* missing key, "None" for null, and the number's own text; only its value
\* through int(float(...)) is kept here.
BoundToInt(b) ==
    CASE b.kind = "missing" -> Value(0)
      [] b.kind = "null" -> Throws("ValueError")
      [] b.kind = "number" -> Value(b.whole)
      [] OTHER -> IntOfFloat(CleanPrice(b.chars))

\* The value of "estimated_price_range": no key, null, a value that is no
\* object (a string), or an object with its two bounds.
MissingRange == [kind |-> "missing", min |-> MissingBound, max |-> MissingBound]
NullRange == [kind |-> "null", min |-> MissingBound, max |-> MissingBound]
TextRange == [kind |-> "string", min |-> MissingBound, max |-> MissingBound]
ObjectRange(lo, hi) == [kind |-> "object", min |-> lo, max |-> hi]

\* The exceptions of `except (ValueError, TypeError)`.
CaughtByCleanUp == {"ValueError", "TypeError"}

\* The body of the loop for one product: the cleaned range, or the exception
\* that leaves the loop.
CleanRange(range) ==
    IF range.kind \in {"null", "string"} THEN Throws("AttributeError")
    ELSE LET lo == BoundToInt(range.min)
             hi == BoundToInt(range.max)
         IN IF lo.exc \in CaughtByCleanUp THEN Value([min |-> 0, max |-> 0])
            ELSE IF lo.exc # "none" THEN Throws(lo.exc)
            ELSE IF hi.exc \in CaughtByCleanUp THEN Value([min |-> 0, max |-> 0])
            ELSE IF hi.exc # "none" THEN Throws(hi.exc)
            ELSE Value([min |-> lo.value, max |-> hi.value])

\* What format_perplexity_output returns for the LLM's answer: an error dict
\* when the request fails, the answer has no choices, the content is no JSON
\* or the clean-up raises; else the parsed object with its ranges cleaned.
FormatError(msg) == [type |-> "dict", keys |-> {"error"}, error |-> msg, product_ideas |-> <<>>]

format_perplexity_output(c) ==
    CASE c.status = "request_failed" -> FormatError("Azure OpenAI API request failed")
      [] c.status = "no_choices" -> FormatError("No valid response from Azure OpenAI")
      [] c.status = "invalid_json" -> FormatError("Failed to parse Azure OpenAI response")
      [] ~c.has_ideas ->
            [type |-> "dict", keys |-> {"gift_summary"}, error |-> Unset, product_ideas |-> <<>>]
      [] \E i \in 1..Len(c.ideas) : CleanRange(c.ideas[i]).exc # "none" ->
            FormatError("Unexpected error")
      [] OTHER ->
            [type |-> "dict", keys |-> {"product_ideas"}, error |-> Unset,
             product_ideas |-> [i \in 1..Len(c.ideas) |-> CleanRange(c.ideas[i]).value]]

\* ------------------------------------------------------------------------
\* State
\* ------------------------------------------------------------------------

VARIABLES
    pc,                         \* where the script of app.py stands
    parsed_request,             \* result of parse_gift_request
    perplexity_recommendations, \* result of generate_product_ideas
    formatted_output,           \* result of format_perplexity_output
    products,                   \* results["products"]
    link_futures,               \* stage-1 futures, by candidate index
    meta_futures,               \* stage-2 futures, by candidate index
    count,                      \* stage-1 completion counter
    metadata_count,             \* stage-2 completion counter
    progress,                   \* progress lines written, in order
    calls,                      \* calls issued to each collaborator
    writes,                     \* assignments made to each product's link and metadata
    answers,                    \* the collaborators' answer per input, when they are deterministic
    content,                    \* the external content handed to a function called on its own
    returned                    \* what that function returned

vars == <<pc, parsed_request, perplexity_recommendations, formatted_output, products,
          link_futures, meta_futures, count, metadata_count, progress, calls,
          writes, answers, content, returned>>

\* A future: queued in the executor, running on a worker, finished (outcome
\* set), or consumed (yielded by as_completed and handled by the script).
\* arg is the link the stage-2 worker read from its product, resp the
\* external response the call met.
Queued == [st |-> "queued", arg |-> Unset, resp |-> Unset, outcome |-> Returned(Unset)]

\* A queued future of stage 2, whose result will be a dict.
QueuedTask == [Queued EXCEPT !.outcome = Returned(MetaUnset)]

NoCalls == [parse |-> 0, generate |-> 0, format |-> 0, search |-> <<>>, extract |-> <<>>]

\* No function is called on its own.
NoCall == [fn |-> "none"]

\* The collaborators answer each call as they please.
NoAnswers == [search |-> <<>>, extract |-> <<>>]

InitAt(start, out) ==
    /\ pc = start
    /\ parsed_request = UnsetVal
    /\ perplexity_recommendations = UnsetVal
    /\ formatted_output = out
    /\ products = <<>>
    /\ link_futures = <<>>
    /\ meta_futures = <<>>
    /\ count = 0
    /\ metadata_count = 0
    /\ progress = <<>>
    /\ calls = NoCalls
    /\ writes = <<>>

\* The button was pressed with a non-empty request.
\* The run of the script proper: no function is called on its own and the
\* collaborators are not pinned to one answer per input.
PipelineRun == answers = NoAnswers /\ content = NoCall /\ returned = NoCall

Init == InitAt("parse", UnsetVal) /\ PipelineRun

\* Futures of the given state.
InState(futs, st) == {i \in 1..Len(futs) : futs[i].st = st}

\* Calls in flight on the pool's workers.
InFlight(futs) == Cardinality(InState(futs, "running"))

\* WorkerFree of a pool that starts a thread for every work item.
WorkerFreeAlways(futs) == TRUE

\* A worker thread is free to take the next work item.
WorkerFree(futs) == InFlight(futs) < max_workers

\* The executor's work queue is first-in first-out.
NextQueued(futs, i) == futs[i].st = "queued" /\ \A j \in 1..(i - 1) : futs[j].st # "queued"

\* AllConsumed of a loop that is left after its first iteration.
FirstConsumed(futs) == Len(futs) = 0 \/ \E i \in 1..Len(futs) : futs[i].st = "consumed"

\* as_completed has yielded every future.
AllConsumed(futs) == \A i \in 1..Len(futs) : futs[i].st = "consumed"

\* PoolIdle of shutdown(wait=False): the script does not wait for the pool.
PoolIdleNoWait(futs) == TRUE

\* shutdown(wait=True): no work item is pending or running.
PoolIdle(futs) == \A i \in 1..Len(futs) : futs[i].st \in {"finished", "consumed"}

\* `if "error" in result:` of the three front-end checks.
ReportsError(result) == In("error", result)

\* ------------------------------------------------------------------------
\* Front end: the three collaborator calls and their error checks
\* ------------------------------------------------------------------------

\* AfterCheck without the st.stop(): the error is shown and the script goes on.
AfterCheckNoStop(result, next) == next

\* Where the script goes after `if "error" in result: st.error(result['error']); st.stop()`.
AfterCheck(result, next) ==
    IF ReportsError(result)
    THEN IF SubscriptRaises("error", result) THEN "crash_frontend" ELSE "stopped"
    ELSE next

ParseRequest(r) ==
    /\ pc = "parse"
    /\ parsed_request' = r
    /\ calls' = [calls EXCEPT !.parse = @ + 1]
    /\ pc' = AfterCheck(r, "generate")
    /\ UNCHANGED <<perplexity_recommendations, formatted_output, products, link_futures,
                   meta_futures, count, metadata_count, progress>>
    /\ UNCHANGED <<writes, answers, content, returned>>

GenerateIdeas(r) ==
    /\ pc = "generate"
    /\ perplexity_recommendations' = r
    /\ calls' = [calls EXCEPT !.generate = @ + 1]
    /\ pc' = AfterCheck(r, "format")
    /\ UNCHANGED <<parsed_request, formatted_output, products, link_futures,
                   meta_futures, count, metadata_count, progress>>
    /\ UNCHANGED <<writes, answers, content, returned>>

FormatIdeas(r) ==
    /\ pc = "format"
    /\ formatted_output' = r
    /\ calls' = [calls EXCEPT !.format = @ + 1]
    /\ pc' = AfterCheck(r, "build")
    /\ UNCHANGED <<parsed_request, perplexity_recommendations, products, link_futures,
                   meta_futures, count, metadata_count, progress>>
    /\ UNCHANGED <<writes, answers, content, returned>>

\* ------------------------------------------------------------------------
\* Stage 1: link resolution
\* ------------------------------------------------------------------------

\* SubmitLinkTasks of a script that treats an empty candidate list as an
\* error and stops.
SubmitLinkTasksRejectsEmpty ==
    /\ pc = "build"
    /\ products' = BuildCandidates(formatted_output)
    /\ link_futures' = [i \in 1..Len(products') |-> Queued]
    /\ calls' = [calls EXCEPT !.search = [i \in 1..Len(products') |-> 0]]
    /\ count' = 0
    /\ writes' = [i \in 1..Len(products') |-> [link |-> 0, metadata |-> 0]]
    /\ pc' = IF Len(products') = 0 THEN "stopped" ELSE "stage1"
    /\ UNCHANGED <<parsed_request, perplexity_recommendations, formatted_output,
                   meta_futures, metadata_count, progress>>
    /\ UNCHANGED <<answers, content, returned>>

\* Builds results["products"], opens the executor and submits one
\* get_product_links task per product.
SubmitLinkTasks ==
    /\ pc = "build"
    /\ products' = BuildCandidates(formatted_output)
    /\ link_futures' = [i \in 1..Len(products') |-> Queued]
    /\ calls' = [calls EXCEPT !.search = [i \in 1..Len(products') |-> 0]]
    /\ count' = 0
    /\ writes' = [i \in 1..Len(products') |-> [link |-> 0, metadata |-> 0]]
    /\ pc' = "stage1"
    /\ UNCHANGED <<parsed_request, perplexity_recommendations, formatted_output,
                   meta_futures, metadata_count, progress>>
    /\ UNCHANGED <<answers, content, returned>>

\* A worker takes the next work item and issues the search request. Workers
\* keep taking items while the script waits in the executor's shutdown.
StartSearch(i) ==
    /\ pc \in {"stage1", "unwind1"}
    /\ NextQueued(link_futures, i)
    /\ WorkerFree(link_futures)
    /\ link_futures' = [link_futures EXCEPT ![i].st = "running"]
    /\ calls' = [calls EXCEPT !.search[i] = @ + 1]
    /\ UNCHANGED <<pc, parsed_request, perplexity_recommendations, formatted_output,
                   products, meta_futures, count, metadata_count, progress>>
    /\ UNCHANGED <<writes, answers, content, returned>>

\* FinishSearch of a task that reads the loop variable when it runs: every
\* task searches for the name of the last product.
FinishSearchLateBound(i, resp) ==
    /\ pc \in {"stage1", "unwind1"}
    /\ link_futures[i].st = "running"
    /\ link_futures' = [link_futures EXCEPT
           ![i].st = "finished",
           ![i].resp = resp,
           ![i].outcome = get_product_links(products[Len(products)].name, resp)]
    /\ UNCHANGED <<pc, parsed_request, perplexity_recommendations, formatted_output,
                   products, meta_futures, count, metadata_count, progress, calls>>
    /\ UNCHANGED <<writes, answers, content, returned>>

\* The search request answers; get_product_links returns or raises.
FinishSearch(i, resp) ==
    /\ pc \in {"stage1", "unwind1"}
    /\ link_futures[i].st = "running"
    /\ link_futures' = [link_futures EXCEPT
           ![i].st = "finished",
           ![i].resp = resp,
           ![i].outcome = get_product_links(products[i].name, resp)]
    /\ UNCHANGED <<pc, parsed_request, perplexity_recommendations, formatted_output,
                   products, meta_futures, count, metadata_count, progress, calls>>
    /\ UNCHANGED <<writes, answers, content, returned>>

\* ConsumeLink that stores the results in completion order instead of looking
\* the product up by its future.
ConsumeLinkInOrder(i) ==
    /\ pc = "stage1"
    /\ link_futures[i].st = "finished"
    /\ link_futures' = [link_futures EXCEPT ![i].st = "consumed"]
    /\ IF link_futures[i].outcome.raised
       THEN /\ pc' = "unwind1"
            /\ UNCHANGED <<products, count, progress, writes>>
       ELSE /\ products' = [products EXCEPT ![count + 1].link = link_futures[i].outcome.value]
            /\ writes' = [writes EXCEPT ![count + 1].link = @ + 1]
            /\ count' = count + 1
            /\ progress' = IF ShouldReport(count', Len(products))
                           THEN Append(progress, <<"links", count', Len(products)>>)
                           ELSE progress
            /\ pc' = pc
    /\ UNCHANGED <<parsed_request, perplexity_recommendations, formatted_output,
                   meta_futures, metadata_count, calls>>
    /\ UNCHANGED <<answers, content, returned>>

\* One iteration of `for future in as_completed(...)`: future.result() is
\* assigned to the product's link, or raises out of the loop.
ConsumeLink(i) ==
    /\ pc = "stage1"
    /\ link_futures[i].st = "finished"
    /\ link_futures' = [link_futures EXCEPT ![i].st = "consumed"]
    /\ IF link_futures[i].outcome.raised
       THEN /\ pc' = "unwind1"
            /\ UNCHANGED <<products, count, progress, writes>>
       ELSE /\ products' = [products EXCEPT ![i].link = link_futures[i].outcome.value]
            /\ writes' = [writes EXCEPT ![i].link = @ + 1]
            /\ count' = count + 1
            /\ progress' = IF ShouldReport(count', Len(products))
                           THEN Append(progress, <<"links", count', Len(products)>>)
                           ELSE progress
            /\ pc' = pc
    /\ UNCHANGED <<parsed_request, perplexity_recommendations, formatted_output,
                   meta_futures, metadata_count, calls>>
    /\ UNCHANGED <<answers, content, returned>>

\* The exception leaves the `with` block: shutdown(wait=True) returns once every
\* submitted task has run, then the exception ends the script.
AbortStage1 ==
    /\ pc = "unwind1"
    /\ PoolIdle(link_futures)
    /\ pc' = "crash_stage1"
    /\ UNCHANGED <<parsed_request, perplexity_recommendations, formatted_output, products,
                   link_futures, meta_futures, count, metadata_count, progress, calls>>
    /\ UNCHANGED <<writes, answers, content, returned>>

\* ------------------------------------------------------------------------
\* Stage 2: metadata extraction
\* ------------------------------------------------------------------------

\* SubmitMetadataTasks of a script that goes on counting in the stage-1
\* counter instead of starting metadata_count at 0.
SubmitMetadataTasksKeepsCount ==
    /\ pc = "stage1"
    /\ AllConsumed(link_futures)
    /\ meta_futures' = [i \in 1..Len(products) |-> QueuedTask]
    /\ calls' = [calls EXCEPT !.extract = [i \in 1..Len(products) |-> 0]]
    /\ metadata_count' = count
    /\ pc' = "stage2"
    /\ UNCHANGED <<parsed_request, perplexity_recommendations, formatted_output, products,
                   link_futures, count, progress>>
    /\ UNCHANGED <<writes, answers, content, returned>>

\* The as_completed loop of stage 1 is exhausted; the second executor is opened
\* and one lambda task per product is submitted.
SubmitMetadataTasks ==
    /\ pc = "stage1"
    /\ AllConsumed(link_futures)
    /\ meta_futures' = [i \in 1..Len(products) |-> QueuedTask]
    /\ calls' = [calls EXCEPT !.extract = [i \in 1..Len(products) |-> 0]]
    /\ metadata_count' = 0
    /\ pc' = "stage2"
    /\ UNCHANGED <<parsed_request, perplexity_recommendations, formatted_output, products,
                   link_futures, count, progress>>
    /\ UNCHANGED <<writes, answers, content, returned>>

\* StartExtract that looks the link up by the product's name: candidates of
\* one name share the link of the first of them.
StartExtractByName(i) ==
    /\ pc = "stage2"
    /\ NextQueued(meta_futures, i)
    /\ WorkerFree(meta_futures)
    /\ LET first == CHOOSE j \in 1..Len(products) :
                        /\ products[j].name = products[i].name
                        /\ \A k \in 1..(j - 1) : products[k].name # products[i].name
       IN IF HasLink(products[first])
          THEN /\ meta_futures' = [meta_futures EXCEPT
                      ![i].st = "running", ![i].arg = products[first].link]
               /\ calls' = [calls EXCEPT !.extract[i] = @ + 1]
          ELSE /\ meta_futures' = [meta_futures EXCEPT
                      ![i].st = "finished", ![i].outcome = Returned(NoLinkResult)]
               /\ calls' = calls
    /\ UNCHANGED <<pc, parsed_request, perplexity_recommendations, formatted_output,
                   products, link_futures, count, metadata_count, progress>>
    /\ UNCHANGED <<writes, answers, content, returned>>

\* A worker runs the lambda: it reads the product's link and either calls
\* extract_product_sync or returns the "No link available" dict at once.
StartExtract(i) ==
    /\ pc = "stage2"
    /\ NextQueued(meta_futures, i)
    /\ WorkerFree(meta_futures)
    /\ IF HasLink(products[i])
       THEN /\ meta_futures' = [meta_futures EXCEPT
                   ![i].st = "running", ![i].arg = products[i].link]
            /\ calls' = [calls EXCEPT !.extract[i] = @ + 1]
       ELSE /\ meta_futures' = [meta_futures EXCEPT
                   ![i].st = "finished", ![i].outcome = Returned(NoLinkResult)]
            /\ calls' = calls
    /\ UNCHANGED <<pc, parsed_request, perplexity_recommendations, formatted_output,
                   products, link_futures, count, metadata_count, progress>>
    /\ UNCHANGED <<writes, answers, content, returned>>

\* extract_product_sync returns its result dict or raises.
FinishExtract(i, resp) ==
    /\ pc = "stage2"
    /\ meta_futures[i].st = "running"
    /\ meta_futures' = [meta_futures EXCEPT
           ![i].st = "finished",
           ![i].resp = resp,
           ![i].outcome = extract_product_sync(meta_futures[i].arg, resp)]
    /\ UNCHANGED <<pc, parsed_request, perplexity_recommendations, formatted_output,
                   products, link_futures, count, metadata_count, progress, calls>>
    /\ UNCHANGED <<writes, answers, content, returned>>

\* ConsumeMetadata that stores the results in completion order instead of
\* looking the product up by its future.
ConsumeMetadataInOrder(i) ==
    /\ pc = "stage2"
    /\ meta_futures[i].st = "finished"
    /\ meta_futures' = [meta_futures EXCEPT ![i].st = "consumed"]
    /\ products' = [products EXCEPT
           ![metadata_count + 1].metadata =
               StoredMetadata(meta_futures[i].outcome, products[i])]
    /\ writes' = [writes EXCEPT ![metadata_count + 1].metadata = @ + 1]
    /\ metadata_count' = metadata_count + 1
    /\ progress' = IF ShouldReport(metadata_count', Len(products))
                   THEN Append(progress, <<"metadata", metadata_count', Len(products)>>)
                   ELSE progress
    /\ UNCHANGED <<pc, parsed_request, perplexity_recommendations, formatted_output,
                   link_futures, count, calls>>
    /\ UNCHANGED <<answers, content, returned>>

\* One iteration of the stage-2 as_completed loop, with its try/except.
ConsumeMetadata(i) ==
    /\ pc = "stage2"
    /\ meta_futures[i].st = "finished"
    /\ meta_futures' = [meta_futures EXCEPT ![i].st = "consumed"]
    /\ products' = [products EXCEPT
           ![i].metadata = StoredMetadata(meta_futures[i].outcome, products[i])]
    /\ writes' = [writes EXCEPT ![i].metadata = @ + 1]
    /\ metadata_count' = metadata_count + 1
    /\ progress' = IF ShouldReport(metadata_count', Len(products))
                   THEN Append(progress, <<"metadata", metadata_count', Len(products)>>)
                   ELSE progress
    /\ UNCHANGED <<pc, parsed_request, perplexity_recommendations, formatted_output,
                   link_futures, count, calls>>
    /\ UNCHANGED <<answers, content, returned>>

\* Display reached without waiting for the stage-2 loop to be exhausted.
DisplayEarly ==
    /\ pc = "stage2"
    /\ pc' = "display"
    /\ UNCHANGED <<parsed_request, perplexity_recommendations, formatted_output, products,
                   link_futures, meta_futures, count, metadata_count, progress, calls>>
    /\ UNCHANGED <<writes, answers, content, returned>>

\* The stage-2 loop is exhausted; the results are displayed.
Display ==
    /\ pc = "stage2"
    /\ AllConsumed(meta_futures)
    /\ pc' = "display"
    /\ UNCHANGED <<parsed_request, perplexity_recommendations, formatted_output, products,
                   link_futures, meta_futures, count, metadata_count, progress, calls>>
    /\ UNCHANGED <<writes, answers, content, returned>>

\* ------------------------------------------------------------------------
\* Specifications
\* ------------------------------------------------------------------------

Idx == 1..Len(products)

Next ==
    \/ \E r \in ParseResults : ParseRequest(r)
    \/ \E r \in GenerateResults : GenerateIdeas(r)
    \/ \E r \in FormatResults(MaxIdeas) : FormatIdeas(r)
    \/ SubmitLinkTasks
    \/ \E i \in Idx : StartSearch(i)
    \/ \E i \in Idx, resp \in SearchResponses : FinishSearch(i, resp)
    \/ \E i \in Idx : ConsumeLink(i)
    \/ AbortStage1
    \/ SubmitMetadataTasks
    \/ \E i \in Idx : StartExtract(i)
    \/ \E i \in Idx, resp \in ExtractResponses : FinishExtract(i, resp)
    \/ \E i \in Idx : ConsumeMetadata(i)
    \/ Display

Spec == Init /\ [][Next]_vars

\* The script's thread runs on, the pool's workers take queued items, and
\* every external call eventually returns or raises: some enabled step is
\* eventually taken.
Fairness == WF_vars(Next)

SpecLive == Init /\ [][Next]_vars /\ Fairness

\* A batch of CapIdeas ideas, one more than the pool has workers, with
\* collaborators that answer every call successfully.
CapOutput ==
    [type |-> "dict", keys |-> {"product_ideas"}, substr_error |-> FALSE,
     product_ideas |-> [i \in 1..CapIdeas |-> [has_name |-> TRUE, name |-> "A"]]]

InitCap == InitAt("build", CapOutput) /\ PipelineRun

NextCap ==
    \/ SubmitLinkTasks
    \/ \E i \in Idx : StartSearch(i)
    \/ \E i \in Idx : FinishSearch(i, "result")
    \/ \E i \in Idx : ConsumeLink(i)
    \/ SubmitMetadataTasks
    \/ \E i \in Idx : StartExtract(i)
    \/ \E i \in Idx : FinishExtract(i, "ok")
    \/ \E i \in Idx : ConsumeMetadata(i)
    \/ Display

SpecCap == InitCap /\ [][NextCap]_vars

\* Collaborators that answer deterministically per input: the search by query,
\* the extraction by URL.
AnswerSets == [search : [Names \cup {""} -> SearchResponses], extract : [Urls -> ExtractResponses]]

InitDet ==
    /\ InitAt("parse", UnsetVal)
    /\ answers \in AnswerSets
    /\ content = NoCall
    /\ returned = NoCall

NextDet ==
    \/ \E r \in ParseResults : ParseRequest(r)
    \/ \E r \in GenerateResults : GenerateIdeas(r)
    \/ \E r \in FormatResults(MaxIdeas) : FormatIdeas(r)
    \/ SubmitLinkTasks
    \/ \E i \in Idx : StartSearch(i)
    \/ \E i \in Idx : FinishSearch(i, answers.search[products[i].name])
    \/ \E i \in Idx : ConsumeLink(i)
    \/ AbortStage1
    \/ SubmitMetadataTasks
    \/ \E i \in Idx : StartExtract(i)
    \/ \E i \in Idx : FinishExtract(i, answers.extract[meta_futures[i].arg])
    \/ \E i \in Idx : ConsumeMetadata(i)
    \/ Display

SpecDet == InitDet /\ [][NextDet]_vars

\* ------------------------------------------------------------------------
\* format_perplexity_output called on its own
\* ------------------------------------------------------------------------

\* Price bounds the LLM may write: none, null, 1500, "₹1,500", " 12.7", "abc", "inf".
BoundValues ==
    {MissingBound, NullBound, NumberBound(1500, FALSE),
     StringBound(<<"₹", "1", ",", "5", "0", "0">>),
     StringBound(<<" ", "1", "2", ".", "7">>),
     StringBound(<<"a", "b", "c">>),
     StringBound(<<"i", "n", "f">>)}

RangeValues ==
    {MissingRange, NullRange, TextRange} \cup {ObjectRange(lo, hi) : lo, hi \in BoundValues}

\* What the formatting request may come back with: a failure, an answer without
\* choices, a content that is no JSON, a JSON object without product_ideas, or
\* one with a list of ideas (each given by its estimated_price_range).
FormatContents ==
    {[fn |-> "format", status |-> s, has_ideas |-> FALSE, ideas |-> <<>>] :
        s \in {"request_failed", "no_choices", "invalid_json", "ok"}}
    \cup {[fn |-> "format", status |-> "ok", has_ideas |-> TRUE, ideas |-> l] :
            l \in UNION {[1..k -> RangeValues] : k \in 0..MaxPricedIdeas}}

InitPrice ==
    /\ InitAt("idle", UnsetVal)
    /\ answers = NoAnswers
    /\ content \in FormatContents
    /\ returned = NoCall

CallFormat ==
    /\ pc = "idle"
    /\ content.fn = "format"
    /\ returned' = format_perplexity_output(content)
    /\ pc' = "returned"
    /\ UNCHANGED <<parsed_request, perplexity_recommendations, formatted_output, products,
                   link_futures, meta_futures, count, metadata_count, progress, calls>>
    /\ UNCHANGED <<writes, answers, content>>

NextPrice == CallFormat

SpecPrice == InitPrice /\ [][NextPrice]_vars

\* ------------------------------------------------------------------------
\* extract_product_data on its own: what is recorded for a crawl result
\* ------------------------------------------------------------------------

\* Fields of class Product, one of each declaration form: a required str, a
\* str with default "", a list with default_factory=list, a bool with
\* default False.
ProductFields == {"product", "website", "image_links", "valentines"}

\* The declared type of a field.
FieldType(f) ==
    CASE f = "image_links" -> "list"
      [] f = "valentines" -> "bool"
      [] OTHER -> "str"

\* A value the LLM extraction returns for a field.
ReturnedValue(f) ==
    CASE FieldType(f) = "list" -> <<"img">>
      [] FieldType(f) = "bool" -> TRUE
      [] OTHER -> "text"

\* The JSON objects the extraction can return: any subset of the fields.
ExtractedObjects == {[f \in S |-> ReturnedValue(f)] : S \in SUBSET ProductFields}

\* result of crawler.arun with json.loads(result.extracted_content): a failed
\* crawl, an exception on the way, crawl4ai that cannot be imported, a content
\* that is no JSON, one JSON object, or a JSON list of objects.
CrawlResults ==
    {[status |-> s, shape |-> "none", items |-> <<>>] :
        s \in {"failed", "exception", "import_error", "unparseable"}}
    \cup {[status |-> "success", shape |-> "dict", items |-> <<o>>] : o \in ExtractedObjects}
    \cup {[status |-> "success", shape |-> "list", items |-> l] :
            l \in UNION {[1..k -> ExtractedObjects] : k \in 0..MaxExtracted}}

\* The try block of extract_product_data: data[0] of a list, the data itself
\* otherwise, returned as it was parsed; or the exception that leaves the block.
TryExtract(url, result) ==
    CASE result.status = "exception" -> Raised("Exception")
      [] result.status = "import_error" -> Raised("ImportError")
      [] result.status = "unparseable" -> Raised("JSONDecodeError")
      [] result.status = "failed" -> Returned(Failure("Crawling failed: error_message", url))
      [] result.shape = "list" /\ Len(result.items) = 0 ->
            Returned(Failure("No products found in extracted data", Unset))
      [] OTHER -> Returned(Success(result.items[1], url))

\* The handlers without `except Exception`: only ImportError is caught.
CaughtByExtractImportOnly == {"ImportError"}

\* What `except ImportError` and `except Exception` catch between them.
CaughtByExtract == {"ImportError", "Exception", "JSONDecodeError"}

\* extract_product_data from the crawl result on, with its two handlers.
extract_from_crawl(url, result) ==
    LET body == TryExtract(url, result)
    IN IF ~body.raised \/ body.value \notin CaughtByExtract THEN body
       ELSE IF body.value = "ImportError"
            THEN Returned(Failure("Missing dependencies: crawl4ai", url))
            ELSE Returned(Failure("Extraction error: collaborator exception", url))

\* The candidate whose page is extracted.
ExtractCandidate == [name |-> "A", link |-> UrlOf("A"), metadata |-> MetaUnset]

ExtractContents ==
    {[fn |-> "extract", url |-> ExtractCandidate.link, result |-> r] : r \in CrawlResults}

InitExtract ==
    /\ InitAt("idle", UnsetVal)
    /\ answers = NoAnswers
    /\ content \in ExtractContents
    /\ returned = NoCall

\* The stage-2 task of the candidate: extract_product_sync(p["link"], ...).
CallExtract ==
    /\ pc = "idle"
    /\ content.fn = "extract"
    /\ returned' = [fn |-> "extract",
                    outcome |-> extract_from_crawl(content.url, content.result),
                    result |-> extract_from_crawl(content.url, content.result).value]
    /\ pc' = "returned"
    /\ UNCHANGED <<parsed_request, perplexity_recommendations, formatted_output, products,
                   link_futures, meta_futures, count, metadata_count, progress, calls>>
    /\ UNCHANGED <<writes, answers, content>>

\* The stage-2 loop body for that task: metadata = future.result(), then
\* metadata["data"] on success and None otherwise is stored.
RecordExtracted ==
    /\ pc = "returned"
    /\ returned.fn = "extract"
    /\ returned' = [fn |-> "record",
                    outcome |-> returned.outcome,
                    result |-> returned.result,
                    metadata |-> StoredMetadata(returned.outcome, ExtractCandidate)]
    /\ pc' = "recorded"
    /\ UNCHANGED <<parsed_request, perplexity_recommendations, formatted_output, products,
                   link_futures, meta_futures, count, metadata_count, progress, calls>>
    /\ UNCHANGED <<writes, answers, content>>

NextExtract ==
    \/ CallExtract
    \/ RecordExtracted

SpecExtract == InitExtract /\ [][NextExtract]_vars

\* ------------------------------------------------------------------------
\* Vocabulary of the properties
\* ------------------------------------------------------------------------

\* The idea list the batch was built from.
InputIdeas == GetProductIdeas(formatted_output)

\* The script has ended, one way or another.
Ended == pc \in {"display", "stopped", "crash_frontend", "crash_stage1"}

\* The link slot holds no usable link.
LinkAbsent(p) == p.link \in {Unset, None, ""}

\* A front-end collaborator returned its {"error": ...} value.
IsErrorValue(x) == x.type = "dict" /\ "error" \in x.keys

\* No search call and no extraction call was issued.
NoCandidateWork ==
    /\ \A i \in DOMAIN calls.search : calls.search[i] = 0
    /\ \A i \in DOMAIN calls.extract : calls.extract[i] = 0

\* Candidates whose link-resolution call raised.
LinkRaised == {i \in 1..Len(link_futures) :
                  link_futures[i].st \in {"finished", "consumed"} /\ link_futures[i].outcome.raised}

\* Candidate i's extraction was called and reported a failure dict.
ExtractReportedFailure(i) ==
    /\ meta_futures[i].st = "consumed"
    /\ calls.extract[i] = 1
    /\ ~meta_futures[i].outcome.raised
    /\ ~meta_futures[i].outcome.value.success

\* Candidate i's extraction call raised out of its worker.
ExtractRaised(i) ==
    /\ meta_futures[i].st = "consumed"
    /\ meta_futures[i].outcome.raised

\* ------------------------------------------------------------------------
\* Properties
\* ------------------------------------------------------------------------

\* C1: when the pipeline completes, the result list has exactly one entry per
\* input idea and entry i carries the name of idea i, whatever the completion
\* order of the workers was.
C1_OrderPreserved ==
    pc = "display" =>
        /\ Len(products) = Len(InputIdeas)
        /\ \A i \in 1..Len(products) : products[i].name = IdeaName(InputIdeas[i])

\* A completed batch of at least two ideas with different names.
C1_Witness ==
    /\ pc = "display"
    /\ Len(products) >= 2
    /\ products[1].name # products[2].name

\* C2: when the link resolution of exactly one of N >= 2 candidates raises,
\* every other candidate ends with the link its own search returned and with
\* its metadata recorded.
C2_LinkFailureIsolated ==
    (Ended /\ Len(products) >= 2 /\ Cardinality(LinkRaised) = 1) =>
        \A i \in 1..Len(products) :
            i \notin LinkRaised =>
                /\ products[i].link = link_futures[i].outcome.value
                /\ products[i].metadata # MetaUnset

\* C3: once the candidate list exists the script never ends in an abort: it
\* ends displaying one result record per input idea.
C3_BatchCompletes ==
    (Ended /\ pc \notin {"stopped", "crash_frontend"}) =>
        /\ pc = "display"
        /\ Len(products) = Len(InputIdeas)

\* C4: in the final result a candidate without a link has the
\* "No link available" failure as its metadata.
C4_NoLinkFailureRecorded ==
    pc = "display" =>
        \A i \in 1..Len(products) :
            products[i].link = None => products[i].metadata = NoLinkResult

\* C5: in the final result a candidate whose extraction was skipped for lack
\* of a link and a candidate whose extraction reported an error never carry
\* the same metadata value.
C5_SkipDistinctFromError ==
    pc = "display" =>
        \A i, j \in 1..Len(products) :
            (LinkAbsent(products[i]) /\ ExtractReportedFailure(j)) =>
                products[i].metadata # products[j].metadata

\* C6: extract_product_sync is never called for a candidate whose link is
\* absent or empty, and at most once for any candidate.
C6_ExtractOnlyWithLink ==
    \A i \in DOMAIN calls.extract :
        /\ calls.extract[i] <= 1
        /\ LinkAbsent(products[i]) => calls.extract[i] = 0

\* A completed batch with a linkless candidate that was never extracted and a
\* linked candidate that was extracted once.
C6_Witness ==
    /\ pc = "display"
    /\ \E i, j \in 1..Len(products) :
          /\ products[i].link = None /\ calls.extract[i] = 0
          /\ ~LinkAbsent(products[j]) /\ calls.extract[j] = 1

\* C7: in each stage the number of calls in flight never exceeds max_workers,
\* also for a batch longer than max_workers, and each stage is left only
\* after every item was executed once.
C7_CapRespected ==
    /\ InFlight(link_futures) <= max_workers
    /\ InFlight(meta_futures) <= max_workers
    /\ pc \in {"stage2", "display"} => \A i \in 1..Len(products) : calls.search[i] = 1
    /\ pc = "display" =>
          \A i \in 1..Len(products) : LinkAbsent(products[i]) \/ calls.extract[i] = 1

\* More ideas than workers: every worker of the extraction pool is busy and a
\* task waits in the queue.
C7_Witness ==
    /\ Len(products) > max_workers
    /\ InFlight(meta_futures) = max_workers
    /\ \E i \in 1..Len(meta_futures) : meta_futures[i].st = "queued"

\* C8: no extraction task exists before every link task has finished and its
\* link was assigned, and a search call and an extraction call are never in
\* flight together.
C8_StagesSequenced ==
    /\ Len(meta_futures) > 0 =>
          \A j \in 1..Len(link_futures) :
              link_futures[j].st = "consumed" /\ products[j].link # Unset
    /\ pc \in {"stage2", "display"} =>
          \A j \in 1..Len(link_futures) : link_futures[j].st = "consumed"
    /\ ~(InFlight(link_futures) > 0 /\ InFlight(meta_futures) > 0)

\* Two extraction calls in flight in a batch of at least two.
C8_Witness ==
    /\ pc = "stage2"
    /\ InFlight(meta_futures) >= 2

\* C9: in the final result a candidate with a link whose extraction threw or
\* reported a failure has the link set and a failure value with the
\* extraction's error text as metadata.
C9_ExtractionErrorRecorded ==
    pc = "display" =>
        \A i \in 1..Len(products) :
            /\ ExtractReportedFailure(i) =>
                  /\ products[i].link = meta_futures[i].arg
                  /\ products[i].metadata.kind = "dict"
                  /\ ~products[i].metadata.success
                  /\ products[i].metadata.error = meta_futures[i].outcome.value.error
            /\ ExtractRaised(i) =>
                  /\ products[i].link = meta_futures[i].arg
                  /\ products[i].metadata.kind = "dict"
                  /\ ~products[i].metadata.success

\* C10: after request parsing, idea generation or reformatting returned an
\* error, no search and no extraction call is issued, generation is not called
\* after a parse error and reformatting not after a generation error.
C10_FatalStopsEarly ==
    /\ IsErrorValue(parsed_request) =>
          calls.generate = 0 /\ calls.format = 0 /\ NoCandidateWork
    /\ IsErrorValue(perplexity_recommendations) =>
          calls.format = 0 /\ NoCandidateWork
    /\ IsErrorValue(formatted_output) => NoCandidateWork

\* The script stopped on a generation error, after a successful parse.
C10_Witness ==
    /\ pc = "stopped"
    /\ calls.parse = 1
    /\ IsErrorValue(perplexity_recommendations)

\* C11: the script ends before link resolution only if a front-end
\* collaborator returned its error value: with a parsed request, any raw idea
\* text and a formatted object, the pipeline proceeds to link resolution.
C11_AbortsOnlyOnError ==
    pc \in {"stopped", "crash_frontend"} =>
        \/ IsErrorValue(parsed_request)
        \/ IsErrorValue(perplexity_recommendations)
        \/ IsErrorValue(formatted_output)

\* C12: the results are displayed only when every candidate is terminal: its
\* link task and its metadata task are done and handled, its link is assigned
\* (a URL or none) and its metadata is assigned (a record or a failure).
C12_DisplayOnlyWhenAllTerminal ==
    pc = "display" =>
        /\ Len(link_futures) = Len(products)
        /\ Len(meta_futures) = Len(products)
        /\ \A i \in 1..Len(products) :
              /\ link_futures[i].st = "consumed"
              /\ meta_futures[i].st = "consumed"
              /\ products[i].link # Unset
              /\ products[i].metadata # MetaUnset

\* A displayed batch with a linkless candidate and a fully enriched one.
C12_Witness ==
    /\ pc = "display"
    /\ \E i, j \in 1..Len(products) :
          /\ products[i].link = None
          /\ products[j].metadata.kind = "product"

\* The link that the deterministic search collaborator yields for a name.
ExpectedLink(name) == get_product_links(name, answers.search[name]).value

\* The result record that a candidate of that name must end with.
ExpectedProduct(name) ==
    LET link == ExpectedLink(name)
        p == [name |-> name, link |-> link, metadata |-> MetaUnset]
        outcome == IF link \in Urls
                   THEN extract_product_sync(link, answers.extract[link])
                   ELSE Returned(NoLinkResult)
    IN [p EXCEPT !.metadata = StoredMetadata(outcome, p)]

\* C13: with collaborators that answer deterministically per input, the
\* displayed result list is the same for every completion order of the
\* workers: entry i is the record determined by the name of idea i.
C13_ResultIndependentOfOrder ==
    pc = "display" =>
        /\ Len(products) = Len(InputIdeas)
        /\ \A i \in 1..Len(products) :
              products[i] = ExpectedProduct(IdeaName(InputIdeas[i]))

\* The second candidate's link was assigned before the first one's, and the
\* two candidates resolve to different links.
C13_Witness ==
    /\ pc = "stage1"
    /\ Len(products) >= 2
    /\ link_futures[2].st = "consumed"
    /\ link_futures[1].st # "consumed"
    /\ ~link_futures[2].outcome.raised
    /\ products[2].link # ExpectedLink(products[1].name)

\* The events a stage has written after `done` completions out of n: one for
\* every k that is a multiple of 2 or equals n.
CadenceTest(e) == e[2] % 2 = 0 \/ e[2] = e[3]
ExpectedEvents(stage, done, n) == SelectSeq([k \in 1..done |-> <<stage, k, n>>], CadenceTest)

\* The events written so far by one stage.
IsLinkEvent(e) == e[1] = "links"
IsMetadataEvent(e) == e[1] = "metadata"
LinkEvents == SelectSeq(progress, IsLinkEvent)
MetadataEvents == SelectSeq(progress, IsMetadataEvent)

\* The progress lines follow the cadence: after the k-th completion exactly
\* when k is a multiple of 2 or k is the total.
ProgressFollowsCadence ==
    /\ LinkEvents = ExpectedEvents("links", count, Len(products))
    /\ MetadataEvents = ExpectedEvents("metadata", metadata_count, Len(products))

\* C14: the progress lines follow the cadence, and for N >= 1 the last
\* progress line of each stage that has ended reports N of N, also when items
\* of the stage failed.
C14_ProgressCadence ==
    /\ ProgressFollowsCadence
    /\ (pc \in {"crash_stage1", "stage2", "display"} /\ Len(products) >= 1) =>
          /\ Len(LinkEvents) >= 1
          /\ LinkEvents[Len(LinkEvents)] = <<"links", Len(products), Len(products)>>
    /\ (pc = "display" /\ Len(products) >= 1) =>
          /\ Len(MetadataEvents) >= 1
          /\ MetadataEvents[Len(MetadataEvents)] = <<"metadata", Len(products), Len(products)>>

\* A bound that int(float(...)) cannot read as a number.
NonNumericBound(b) ==
    \/ b.kind = "null"
    \/ b.kind = "string" /\ ~IsDecimal(CleanPrice(b.chars))

\* A price range that is missing, null, not an object, or has a
\* non-numeric or malformed bound.
UnusableRange(range) ==
    \/ range.kind \in {"missing", "null", "string"}
    \/ NonNumericBound(range.min)
    \/ NonNumericBound(range.max)

\* C15: for an answer with a product_ideas list, format_perplexity_output
\* returns the list and no error, and every idea with an unusable price range
\* has its range coerced to min = 0, max = 0.
C15_PriceNeverFailsBatch ==
    (pc = "returned" /\ content.fn = "format" /\ content.status = "ok" /\ content.has_ideas) =>
        /\ "error" \notin returned.keys
        /\ Len(returned.product_ideas) = Len(content.ideas)
        /\ \A i \in 1..Len(content.ideas) :
              UnusableRange(content.ideas[i]) =>
                  returned.product_ideas[i] = [min |-> 0, max |-> 0]

\* C16: a search answered with zero results, be it an empty result list or a
\* body without a result list, makes get_product_links return None without
\* raising, and the candidate's link is then recorded as missing.
C16_ZeroResultsGiveNone ==
    \A i \in 1..Len(link_futures) :
        (link_futures[i].st \in {"finished", "consumed"}
            /\ link_futures[i].resp \in {"empty", "missing"}) =>
                /\ ~link_futures[i].outcome.raised
                /\ link_futures[i].outcome.value = None
                /\ link_futures[i].st = "consumed" => products[i].link = None

\* C17: a search call that errors leaves a failure value on its candidate,
\* and no search is retried: when the run has ended, exactly one search call
\* was issued per candidate.
C17_SearchErrorAttachedNoRetry ==
    /\ \A i \in DOMAIN calls.search : calls.search[i] <= 1
    /\ pc \in {"display", "crash_stage1"} =>
          \A i \in 1..Len(products) :
              /\ calls.search[i] = 1
              /\ link_futures[i].outcome.raised =>
                    (products[i].link # Unset \/ products[i].metadata # MetaUnset)

\* C18: a candidate keeps the name it was created with, its link is assigned
\* at most once and only in stage 1, its metadata at most once and only in
\* stage 2 after its link, and when the run has ended each candidate has had
\* exactly one link assignment and exactly one metadata assignment.
C18_Lifecycle ==
    /\ \A i \in 1..Len(products) :
          /\ products[i].name = IdeaName(InputIdeas[i])
          /\ writes[i].link <= 1
          /\ writes[i].metadata <= 1
          /\ writes[i].link = 0 => products[i].link = Unset
          /\ writes[i].metadata = 0 => products[i].metadata = MetaUnset
          /\ writes[i].metadata = 1 => (writes[i].link = 1 /\ pc \in {"stage2", "display"})
    /\ pc \in {"display", "crash_stage1"} =>
          \A i \in 1..Len(products) : writes[i].link = 1 /\ writes[i].metadata = 1

\* The write of a link into slot i in this step: it is the value of future i,
\* which the orchestrator is consuming, and no stage-2 worker exists yet.
LinkWriteOwnSlot(i) ==
    /\ link_futures[i].st = "finished"
    /\ link_futures'[i].st = "consumed"
    /\ ~link_futures[i].outcome.raised
    /\ products'[i].link = link_futures[i].outcome.value
    /\ products'[i].name = products[i].name
    /\ products'[i].metadata = products[i].metadata
    /\ meta_futures = <<>>

\* The write of metadata into slot i in this step: it is the result of task i,
\* whose worker has finished, and every link was written before.
MetadataWriteOwnSlot(i) ==
    /\ meta_futures[i].st = "finished"
    /\ meta_futures'[i].st = "consumed"
    /\ products'[i].metadata = StoredMetadata(meta_futures[i].outcome, products[i])
    /\ products'[i].name = products[i].name
    /\ products'[i].link = products[i].link
    /\ \A j \in 1..Len(link_futures) : link_futures[j].st = "consumed"

\* A worker of stage 2 picks up task i in this step and reads the link.
WorkerReadsLink(i) ==
    /\ i \in DOMAIN meta_futures
    /\ i \in DOMAIN meta_futures'
    /\ meta_futures[i].st = "queued"
    /\ meta_futures'[i].st # "queued"

\* C19: every write goes to the slot of the candidate whose task produced the
\* value, a step writes at most one field of one candidate, a worker reads a
\* link only in a step that writes nothing and after that link was written,
\* and the collection keeps its length once the candidates are built.
C19_RaceFree ==
    [][ /\ pc \in {"stage1", "unwind1", "stage2"} => Len(products') = Len(products)
        /\ \A i \in 1..Len(products) :
              /\ products'[i] # products[i] =>
                    /\ LinkWriteOwnSlot(i) \/ MetadataWriteOwnSlot(i)
                    /\ \A j \in 1..Len(products) : j # i => products'[j] = products[j]
              /\ WorkerReadsLink(i) =>
                    /\ products' = products
                    /\ writes[i].link = 1
                    /\ meta_futures'[i].arg \in {Unset, products[i].link}
      ]_vars

\* Two metadata results were stored out of submission order.
C19_Witness ==
    /\ pc = "stage2"
    /\ Len(products) >= 2
    /\ writes[2].metadata = 1
    /\ writes[1].metadata = 0
    /\ products[1].link # products[2].link

\* The default the schema gives a field of that type.
TypeDefault(t) ==
    CASE t = "list" -> <<>>
      [] t = "bool" -> FALSE
      [] OTHER -> ""

\* The crawl succeeded and its extracted content holds an object.
ExtractionSucceeded ==
    /\ content.fn = "extract"
    /\ content.result.status = "success"
    /\ Len(content.result.items) > 0

\* C20: when the extraction succeeded, the call reports success whatever
\* fields are missing, and the recorded metadata has every field of the
\* schema: the returned value where the extractor returned one, the default of
\* the field's type where it did not.
C20_RecordedConformsToSchema ==
    ExtractionSucceeded =>
        /\ pc \in {"returned", "recorded"} => returned.result.success
        /\ pc = "recorded" =>
              LET o == content.result.items[1]
                  m == returned.metadata
              IN  /\ DOMAIN m = ProductFields
                  /\ \A f \in ProductFields :
                        m[f] = IF f \in DOMAIN o THEN o[f] ELSE TypeDefault(FieldType(f))

\* Candidates i and j are two entries of the batch with the same name.
SameName(i, j) == i # j /\ products[i].name = products[j].name

\* C21: two candidates with the same name are independent work items: each has
\* its own slot, each has its own search call, the extractor is called for
\* each exactly when its own link is usable and with its own link, and each
\* stores the results of its own tasks, also when the other's differ.
C21_DuplicateNamesIndependent ==
    /\ Len(products) > 0 => Len(products) = Len(InputIdeas)
    /\ \A i, j \in 1..Len(products) :
          SameName(i, j) =>
              /\ pc \in {"stage2", "display", "crash_stage1"} => calls.search[i] = 1
              /\ (link_futures[i].st = "consumed" /\ ~link_futures[i].outcome.raised) =>
                    products[i].link = link_futures[i].outcome.value
              /\ link_futures[i].st # "consumed" => products[i].link = Unset
              /\ (i \in DOMAIN meta_futures /\ meta_futures[i].st # "queued") =>
                    /\ calls.extract[i] = (IF LinkAbsent(products[i]) THEN 0 ELSE 1)
                    /\ LinkAbsent(products[i]) => meta_futures[i].outcome = Returned(NoLinkResult)
                    /\ ~LinkAbsent(products[i]) => meta_futures[i].arg = products[i].link
              /\ (i \in DOMAIN meta_futures /\ meta_futures[i].st = "consumed") =>
                    products[i].metadata = StoredMetadata(meta_futures[i].outcome, products[i])
              /\ (i \notin DOMAIN meta_futures \/ meta_futures[i].st # "consumed") =>
                    products[i].metadata = MetaUnset

\* A displayed batch with two candidates of one name, one with a link and an
\* extracted record, the other without a link.
C21_Witness ==
    /\ pc = "display"
    /\ \E i, j \in 1..Len(products) :
          /\ SameName(i, j)
          /\ products[i].link = UrlOf(products[i].name)
          /\ products[i].metadata.kind = "product"
          /\ products[j].link = None
          /\ calls.search[i] = 1 /\ calls.search[j] = 1
          /\ calls.extract[i] = 1 /\ calls.extract[j] = 0

\* The search of candidate i returned a URL and its extraction a full record.
HappyPath(i) ==
    /\ i \in DOMAIN meta_futures
    /\ link_futures[i].resp = "result"
    /\ meta_futures[i].resp = "ok"

\* The status the display derives from a metadata value: ok for a record that
\* is neither missing nor a failure dict.
MetadataOk(m) == m.kind = "product"

\* C22: a candidate whose search returned a URL and whose extraction returned
\* a full record ends with that URL as link and with the extracted record,
\* read as a success, as metadata.
C22_HappyPath ==
    \A i \in 1..Len(products) :
        (HappyPath(i) /\ (pc = "display" \/ meta_futures[i].st = "consumed")) =>
            /\ products[i].link = UrlOf(products[i].name)
            /\ products[i].metadata = ProductData(UrlOf(products[i].name))
            /\ MetadataOk(products[i].metadata)

\* Scenario A: a displayed batch of one idea on the happy path.
C22_Witness ==
    /\ pc = "display"
    /\ Len(products) = 1
    /\ products[1].name = "A"
    /\ HappyPath(1)

\* C23: whatever the completion order, the link stored on a candidate is what
\* the search returned for its own name, the URL given to the extractor is
\* that candidate's own link, and the metadata stored on it is what the
\* orchestrator keeps of the extraction result for that URL.
C23_OwnDataFlow ==
    \A i \in 1..Len(products) :
        /\ writes[i].link = 1 =>
              products[i].link = get_product_links(products[i].name, link_futures[i].resp).value
        /\ (i \in DOMAIN meta_futures /\ meta_futures[i].arg # Unset) =>
              meta_futures[i].arg = products[i].link
        /\ (writes[i].metadata = 1 /\ meta_futures[i].arg # Unset) =>
              products[i].metadata =
                  StoredMetadata(extract_product_sync(products[i].link, meta_futures[i].resp),
                                 products[i])
        /\ (writes[i].metadata = 1 /\ meta_futures[i].arg = Unset) =>
              products[i].metadata = StoredMetadata(Returned(NoLinkResult), products[i])

\* Two candidates of different names, both with a link; the second one's
\* record was stored while the first one's extraction is still running.
C23_Witness ==
    /\ pc = "stage2"
    /\ Len(products) >= 2
    /\ products[1].name # products[2].name
    /\ meta_futures[1].st = "running"
    /\ writes[2].metadata = 1
    /\ products[2].metadata = ProductData(UrlOf(products[2].name))

\* C24: when an extraction task raises out of its worker the script stays in
\* the metadata stage, that candidate gets a failure dict whose error text is
\* the "Extraction failed: ..." message and whose url is the candidate's link,
\* the item is counted as completed, and every other candidate keeps its link
\* and the metadata of its own task.
C24_ExtractRaiseIsolated ==
    \A i \in 1..Len(meta_futures) :
        ExtractRaised(i) =>
            /\ pc \in {"stage2", "display"}
            /\ products[i].metadata.kind = "dict"
            /\ ~products[i].metadata.success
            /\ products[i].metadata.error = "Extraction failed: RuntimeError"
            /\ products[i].metadata.url = products[i].link
            /\ products[i].link = meta_futures[i].arg
            /\ metadata_count = Cardinality(InState(meta_futures, "consumed"))
            /\ \A j \in 1..Len(products) :
                  j # i =>
                      /\ products[j].link = link_futures[j].outcome.value
                      /\ products[j].metadata =
                            IF meta_futures[j].st = "consumed"
                            THEN StoredMetadata(meta_futures[j].outcome, products[j])
                            ELSE MetaUnset

\* A displayed batch in which one extraction raised and another candidate
\* has its extracted record.
C24_Witness ==
    /\ pc = "display"
    /\ \E i, j \in 1..Len(products) :
          /\ ExtractRaised(i)
          /\ meta_futures[j].resp = "ok"
          /\ products[j].metadata.kind = "product"
    /\ metadata_count = Len(products)

\* C25: extract_product_data never raises: whatever the crawl does it returns
\* a success value with data or a failure value with a non-empty error text; a
\* failed crawl, an exception and a content that is no JSON give a failure, an
\* extracted empty list gives "No products found in extracted data", and a
\* non-empty list gives its first element.
C25_ExtractNeverRaises ==
    (pc \in {"returned", "recorded"} /\ content.fn = "extract") =>
        LET r == content.result
            out == returned.outcome
        IN /\ ~out.raised
           /\ out.value.kind = "dict"
           /\ \/ out.value.success /\ out.value.data \in ExtractedObjects
              \/ ~out.value.success /\ out.value.error \notin {Unset, ""}
           /\ r.status # "success" => ~out.value.success
           /\ (r.shape = "list" /\ Len(r.items) = 0) =>
                 /\ ~out.value.success
                 /\ out.value.error = "No products found in extracted data"
           /\ (r.shape = "list" /\ Len(r.items) > 0) =>
                 out.value.success /\ out.value.data = r.items[1]
           /\ r.shape = "dict" => out.value.success /\ out.value.data = r.items[1]

\* The call returned for a content that is no JSON, and for a list of two
\* different objects.
C25_Witness ==
    /\ pc = "returned"
    /\ content.fn = "extract"
    /\ \/ content.result.status = "unparseable"
       \/ /\ content.result.shape = "list"
          /\ Len(content.result.items) = 2
          /\ content.result.items[1] # content.result.items[2]

\* No metadata event is followed by a link event.
StagesInOrder(p) ==
    \A a, b \in 1..Len(p) : (a < b /\ p[a][1] = "metadata") => p[b][1] = "metadata"

\* Within each stage the completed count grows strictly, and no event
\* reports more completions than the total.
CountsIncrease(p) ==
    /\ \A a, b \in 1..Len(p) : (a < b /\ p[a][1] = p[b][1]) => p[a][2] < p[b][2]
    /\ \A a \in 1..Len(p) : p[a][2] >= 1 /\ p[a][2] <= p[a][3]

\* The number of candidates with an assigned result of the stage.
Assigned(stage, ps) ==
    IF stage = "links"
    THEN Cardinality({i \in 1..Len(ps) : ps[i].link # Unset})
    ELSE Cardinality({i \in 1..Len(ps) : ps[i].metadata # MetaUnset})

\* C26: every link-stage progress event precedes every metadata-stage event;
\* within a stage the completed count is strictly increasing and never
\* exceeds the total; and an event is emitted with the completed count equal
\* to the number of candidates whose result of that stage is assigned and
\* with the total equal to the number of candidates.
C26_OrderedProgress ==
    [][ /\ StagesInOrder(progress')
        /\ CountsIncrease(progress')
        /\ progress' # progress =>
              /\ Len(progress') = Len(progress) + 1
              /\ SubSeq(progress', 1, Len(progress)) = progress
              /\ LET e == progress'[Len(progress')]
                 IN /\ e[1] = (IF pc = "stage1" THEN "links" ELSE "metadata")
                    /\ e[2] = Assigned(e[1], products')
                    /\ e[3] = Len(products')
      ]_vars

\* A displayed batch of three with the four progress events of its two stages.
C26_Witness ==
    /\ pc = "display"
    /\ Len(products) = 3
    /\ progress = << <<"links", 2, 3>>, <<"links", 3, 3>>,
                     <<"metadata", 2, 3>>, <<"metadata", 3, 3>> >>

\* C27: each submitted item is executed and completed at most once, and if
\* every external call eventually returns or raises, a pipeline that entered
\* the link stage eventually completes, displaying its results.
C27_Terminates ==
    /\ [](\A i \in 1..Len(link_futures) : calls.search[i] <= 1 /\ writes[i].link <= 1)
    /\ (pc = "stage1") ~> (pc = "display")

\* The formatter returned an object, not an error, and its idea list is empty
\* or missing.
EmptyBatch ==
    /\ formatted_output.type = "dict"
    /\ ~IsErrorValue(formatted_output)
    /\ Len(InputIdeas) = 0

\* C28: for an empty or missing idea list no search call and no extraction
\* call is issued, no progress event is written in either stage, and the
\* script ends displaying an empty result list, not in an error.
C28_EmptyBatch ==
    EmptyBatch =>
        /\ calls.search = <<>>
        /\ calls.extract = <<>>
        /\ link_futures = <<>>
        /\ meta_futures = <<>>
        /\ progress = <<>>
        /\ products = <<>>
        /\ Ended => pc = "display"

\* The script displayed an empty list for an object without product_ideas.
C28_Witness ==
    /\ pc = "display"
    /\ EmptyBatch
    /\ "product_ideas" \notin formatted_output.keys
    /\ products = <<>>

\* The script has taken a raising link-resolution future from as_completed.
LinkRaiseSeen ==
    \E i \in 1..Len(link_futures) :
        link_futures[i].st = "consumed" /\ link_futures[i].outcome.raised

\* C29: once a link-resolution task has raised into the script, the script
\* stays in the link stage until every submitted search has run to its end,
\* none being cancelled; the results not yet taken from as_completed are never
\* assigned; and no extraction task and no extraction call exists in that run.
C29_RaiseDrainsStage1 ==
    LinkRaiseSeen =>
        /\ pc \in {"unwind1", "crash_stage1"}
        /\ meta_futures = <<>>
        /\ calls.extract = <<>>
        /\ \A i \in 1..Len(link_futures) :
              link_futures[i].st # "consumed" => products[i].link = Unset
        /\ pc = "crash_stage1" =>
              \A i \in 1..Len(link_futures) :
                  /\ link_futures[i].st \in {"finished", "consumed"}
                  /\ calls.search[i] = 1

\* The script ended on a raising search while the URL another search had
\* returned was never taken.
C29_Witness ==
    /\ pc = "crash_stage1"
    /\ \E i \in 1..Len(link_futures) :
          /\ link_futures[i].st = "finished"
          /\ link_futures[i].resp = "result"
          /\ products[i].link = Unset

\* The integer a bound that parses stands for: 0 for a missing bound, the
\* truncated value of a number or of a numeric text.
BoundInt(b) ==
    CASE b.kind = "missing" -> 0
      [] b.kind = "number" -> b.whole
      [] OTHER -> TruncatedValue(CleanPrice(b.chars))

\* Every idea of the answer has a price range that is an object, or none.
RangesAreObjects ==
    \A i \in 1..Len(content.ideas) : content.ideas[i].kind \in {"object", "missing"}

\* C30: for ideas whose price range is an object (or missing), the clean-up
\* is all-or-nothing per idea: if both bounds parse, min and max are the
\* truncated integers of their values, a missing bound being 0; if either
\* bound does not parse, min and max are both 0.
C30_PriceAllOrNothing ==
    (pc = "returned" /\ content.fn = "format" /\ content.status = "ok"
        /\ content.has_ideas /\ RangesAreObjects) =>
        /\ "error" \notin returned.keys
        /\ Len(returned.product_ideas) = Len(content.ideas)
        /\ \A i \in 1..Len(content.ideas) :
              LET range == content.ideas[i]
              IN returned.product_ideas[i] =
                    IF NonNumericBound(range.min) \/ NonNumericBound(range.max)
                    THEN [min |-> 0, max |-> 0]
                    ELSE [min |-> BoundInt(range.min), max |-> BoundInt(range.max)]

====
